---- MODULE Spec2Model ----
(***************************************************************************)
(* SyncTime: privacy-preserving availability reconciliation.               *)
(*                                                                         *)
(* The module models                                                       *)
(*   - the replicated event document and its mutations (eventStore),       *)
(*   - the calendar transforms that turn raw Google events into blocks,    *)
(*   - the availability grid of AvailabilityView and the store's           *)
(*     findCommonAvailability,                                             *)
(*   - the browser CalendarIntegration component (token, OAuth, fetch).    *)
(*                                                                         *)
(* Strings that the code only compares or concatenates (participant ids,   *)
(* block keys) are sequences of one-character strings, so that startsWith  *)
(* is computed as String.prototype.startsWith computes it.  Time strings   *)
(* are tagged records that new Date() parses (NewDate).  Times are minutes *)
(* on the local clock, counted from local midnight of the selected date.   *)
(***************************************************************************)
EXTENDS Integers, Sequences, FiniteSets, TLC

VARIABLES
  \* ---- the event document (EventState) ----
  eventId, title, description, duration, organizerName, createdAt,
  participants,      \* Record<string, EventParticipant>
  scheduleBlocks,    \* Record<string, ScheduleBlock>
  \* ---- AvailabilityView ----
  selectedDuration,  \* useState(30)
  timeSlots,         \* the memoised slot grid
  commonSlots,       \* what findCommonAvailability returned last
  \* ---- calendar sync: worker and clients ----
  googleEvents,      \* the items the Calendar API returns for the participant
  transformed,       \* what transformGoogleEventsToScheduleBlocks returned last
  workerResponse,    \* the reply of POST /calendar/schedule/sync
  \* ---- CalendarIntegration (browser OAuth variant) ----
  isGoogleLoaded,    \* useState(false)
  isSyncing,         \* useState(false)
  isAutoSyncing,     \* useState(false)
  syncError,         \* useState<string | null>(null)
  syncSuccess,       \* useState(false)
  successTimer,      \* the pending setTimeout(() => setSyncSuccess(false))
  lastSyncTime,      \* useState<Date | null>(null), mirrored in localStorage
  storedToken,       \* localStorage gtoken_<participant>_<event>
  gapiToken,         \* the token set in window.gapi.client
  inFlight,          \* the sync calls that are suspended at an await
  debounceTimeout,   \* the pending timer of handleVisibilityChange
  mountCheck,        \* checkTokenStatus of the mount effect
  \* ---- two replicas of the document ----
  replicaDocs,       \* the document as each replica holds it
  replicaOps,        \* the mutation each replica ran on its own document
  mergedDocs,        \* the document of each replica after the merge
  \* ---- environment ----
  now,               \* the wall clock (Date.now())
  lastOp             \* the last operation that ran, with its arguments

metaVars == <<eventId, title, description, duration, organizerName, createdAt>>
docVars == <<eventId, title, description, duration, organizerName, createdAt,
             participants, scheduleBlocks>>
viewVars == <<selectedDuration, timeSlots, commonSlots>>
\* what the store operations leave alone besides the document and the clock
syncVars == <<googleEvents, transformed, workerResponse>>
uiVars == <<isGoogleLoaded, isSyncing, isAutoSyncing, syncError, syncSuccess,
            successTimer, lastSyncTime>>
flowVars == <<uiVars, storedToken, gapiToken, inFlight, debounceTimeout,
              mountCheck>>
replicaVars == <<replicaDocs, replicaOps, mergedDocs>>
otherVars == <<viewVars, syncVars, flowVars, replicaVars>>
vars == <<eventId, title, description, duration, organizerName, createdAt,
          participants, scheduleBlocks, selectedDuration, timeSlots,
          commonSlots, googleEvents, transformed, workerResponse,
          isGoogleLoaded, isSyncing, isAutoSyncing, syncError, syncSuccess,
          successTimer, lastSyncTime, storedToken, gapiToken, inFlight,
          debounceTimeout, mountCheck, replicaDocs, replicaOps, mergedDocs,
          now, lastOp>>

----------------------------------------------------------------------------
(* Bounds *)

MaxBlocks == 2      \* longest block list handed to syncParticipantSchedule
MaxNow == 1         \* last clock value of the store specification
MaxSteps == 3       \* number of store operations in one run

----------------------------------------------------------------------------
(* Values *)

Null == "null"
Undefined == "undefined"
NullNumber == 0 - 1      \* null in a number-typed field (createdAt, lastSyncTime)

\* A string is a sequence of characters.
Dash == <<"-">>

\* Outcomes of Math.random().toString(36).substring(2, 15): base-36 strings,
\* which never contain '-'.
IdChars == << "a", "b", "c", "d", "e", "f", "g", "h", "i", "j", "k", "l" >>

\* Outcomes of generateId() in the store.
generateId == { <<IdChars[1]>>, <<IdChars[2]>> }

\* Ids that callers may hand to the store: generated ones, and one that
\* has another id followed by '-' as a prefix.
ParticipantIds == generateId \cup { <<"a", "-", "b">> }

Names == {"Ann", "Bob"}

PARTICIPANT_COLORS ==
  << "#3B82F6", "#EC4899", "#F59E0B", "#EF4444",
     "#8B5CF6", "#06B6D4", "#F97316", "#84CC16" >>

\* Time strings.
DateTimeStr(t) == [kind |-> "dateTime", v |-> t]
DateStr(d) == [kind |-> "date", v |-> d]
UndefinedStr == [kind |-> "undefined", v |-> 0]

ScheduleBlock(startTime, endTime, lastSyncAt) ==
  [startTime |-> startTime, endTime |-> endTime, lastSyncAt |-> lastSyncAt]

\* String.prototype.startsWith
startsWith(s, prefix) ==
  /\ Len(s) >= Len(prefix)
  /\ SubSeq(s, 1, Len(prefix)) = prefix

\* `${participantId}-`
keyPrefix(participantId) == participantId \o Dash

\* `${participantId}-${generateId()}`
blockKey(participantId, suffix) == participantId \o Dash \o suffix

\* The worker has not replied (yet).
\* No second replica: the document is the only copy.
NoReplicas ==
  /\ replicaDocs = <<>>
  /\ replicaOps = <<>>
  /\ mergedDocs = <<>>

\* CalendarIntegration as constructed, before any effect ran.
NotMounted ==
  /\ isGoogleLoaded = FALSE
  /\ isSyncing = FALSE
  /\ isAutoSyncing = FALSE
  /\ syncError = Null
  /\ syncSuccess = FALSE
  /\ successTimer = FALSE
  /\ lastSyncTime = NullNumber
  /\ storedToken = "none"
  /\ gapiToken = Null
  /\ inFlight = <<>>
  /\ debounceTimeout = FALSE
  /\ mountCheck = [pending |-> FALSE, calendarConnected |-> FALSE]

NoResponse ==
  [success |-> FALSE, participantId |-> <<>>, scheduleBlockCount |-> 0,
   scheduleBlocks |-> <<>>]

----------------------------------------------------------------------------
(* eventStore: inputs of the store specification *)

\* Blocks handed to syncParticipantSchedule by the store specification.
StoreBlocks ==
  { ScheduleBlock(DateTimeStr(600), DateTimeStr(630), 0),
    ScheduleBlock(DateTimeStr(615), DateTimeStr(660), 0) }

BlockLists == UNION { [1..n -> StoreBlocks] : n \in 0..MaxBlocks }

\* The ids generateId() returns for the blocks of one call.  Math.random
\* gives about 11 base-36 digits; two equal results in one call are left out.
FreshIds(n) ==
  { ids \in [1..n -> generateId] :
      \A i, j \in 1..n : i # j => ids[i] # ids[j] }

EventParticipant(name, joinedAt, calendarConnected, color) ==
  [name |-> name, joinedAt |-> joinedAt,
   calendarConnected |-> calendarConnected, color |-> color]

\* Partial<EventParticipant> values handed to updateParticipantState.
PartialUpdates ==
  { [calendarConnected |-> TRUE], [calendarConnected |-> FALSE],
    [name |-> "Bob"], [joinedAt |-> 7] }

\* EventParticipant values read back from localStorage.
RestoreData ==
  { EventParticipant("Ann", 0, FALSE, PARTICIPANT_COLORS[1]),
    EventParticipant("Bob", 5, TRUE, PARTICIPANT_COLORS[2]) }

EventData(id, t, desc, dur, org, created) ==
  [eventId |-> id, title |-> t, description |-> desc, duration |-> dur,
   organizerName |-> org, createdAt |-> created]

EventDatas ==
  { EventData("ev1", "Standup", "daily", 30, "Ann", 1),
    EventData("ev1", "Retro", Undefined, 60, "Bob", 2) }

----------------------------------------------------------------------------
(* eventStore: the mutations *)

\* Variant of the delete loop that deletes nothing.
removeParticipantBlocks_KeepAll(blocks, participantId) ==
  blocks

\* The delete loop of syncParticipantSchedule.
removeParticipantBlocks(blocks, participantId) ==
  [k \in { key \in DOMAIN blocks :
             ~startsWith(key, keyPrefix(participantId)) } |-> blocks[k]]

\* The insert loop of syncParticipantSchedule; ids[i] is the generateId()
\* result for the i-th block, and a later assignment to a key wins.
addParticipantBlocks(blocks, participantId, newBlocks, ids) ==
  LET keyOf(i) == blockKey(participantId, ids[i])
      keys == { keyOf(i) : i \in DOMAIN newBlocks }
      lastOf(k) == CHOOSE i \in DOMAIN newBlocks :
                     /\ keyOf(i) = k
                     /\ \A j \in DOMAIN newBlocks : keyOf(j) = k => j <= i
  IN  [k \in DOMAIN blocks \cup keys |->
         IF k \in keys THEN newBlocks[lastOf(k)] ELSE blocks[k]]

\* newScheduleBlocks as syncParticipantSchedule returns it.
newScheduleBlocks(blocks, participantId, newBlocks, ids) ==
  addParticipantBlocks(removeParticipantBlocks(blocks, participantId),
                       participantId, newBlocks, ids)

\* getScheduleForParticipant: the entries whose key starts with
\* `${participantId}-` (kept under their keys; the code returns the values).
getScheduleForParticipant(blocks, participantId) ==
  [k \in { key \in DOMAIN blocks :
             startsWith(key, keyPrefix(participantId)) } |-> blocks[k]]

\* Variant of the merge that keeps only the updates.
mergeParticipant_Replace(participant, updates) == updates

\* { ...state.participants[id], ...updates }
mergeParticipant(participant, updates) ==
  [f \in DOMAIN participant \cup DOMAIN updates |->
     IF f \in DOMAIN updates THEN updates[f] ELSE participant[f]]

\* { ...state.participants, [id]: participant }
withParticipant(parts, id, participant) ==
  [k \in DOMAIN parts \cup {id} |-> IF k = id THEN participant ELSE parts[k]]

\* Variant of the color index that wraps one entry early.
colorIndex_WrapEarly(parts) ==
  Cardinality(DOMAIN parts) % (Len(PARTICIPANT_COLORS) - 1)

\* Object.keys(participants).length % PARTICIPANT_COLORS.length
colorIndex(parts) == Cardinality(DOMAIN parts) % Len(PARTICIPANT_COLORS)

\* Bookkeeping: the operation that ran last, its arguments, how many times
\* in a row it ran with these arguments, and the number of operations so far.
StepBound == lastOp.n < MaxSteps

Did(name, id, arg) ==
  lastOp' = [op |-> name, id |-> id, arg |-> arg,
             run |-> IF lastOp.op = name /\ lastOp.id = id /\ lastOp.arg = arg
                     THEN lastOp.run + 1 ELSE 1,
             n |-> lastOp.n + 1]

\* Variant of the participant literal that picks the color by the clock.
newParticipant_ColorByClock(parts, name, t) ==
  EventParticipant(name, t, FALSE,
                   PARTICIPANT_COLORS[(t % Len(PARTICIPANT_COLORS)) + 1])

\* The participant object addParticipant builds; t is its Date.now().
newParticipant(parts, name, t) ==
  EventParticipant(name, t, FALSE,
                   PARTICIPANT_COLORS[colorIndex(parts) + 1])

addParticipant(name) ==
  /\ StepBound
  /\ \E id \in generateId \ DOMAIN participants :
       /\ participants' =
            withParticipant(participants, id,
                            newParticipant(participants, name, now))
       /\ Did("addParticipant", id, <<>>)
  /\ UNCHANGED <<metaVars, scheduleBlocks, now, otherVars>>

updateParticipantState(id, updates) ==
  /\ StepBound
  /\ participants' =
       IF id \notin DOMAIN participants THEN participants
       ELSE withParticipant(participants, id,
                            mergeParticipant(participants[id], updates))
  /\ Did("updateParticipantState", id, <<>>)
  /\ UNCHANGED <<metaVars, scheduleBlocks, now, otherVars>>

updateCalendarSyncStatus(participantId, connected) ==
  /\ StepBound
  /\ participants' =
       IF participantId \notin DOMAIN participants THEN participants
       ELSE withParticipant(participants, participantId,
              mergeParticipant(participants[participantId],
                               [calendarConnected |-> connected]))
  /\ Did("updateCalendarSyncStatus", participantId, <<>>)
  /\ UNCHANGED <<metaVars, scheduleBlocks, now, otherVars>>

\* Variant of storeEventData that skips an undefined description.
storeEventData_SkipUndefined(eventData) ==
  /\ StepBound
  /\ eventId' = eventData.eventId
  /\ title' = eventData.title
  /\ description' = IF eventData.description = Undefined THEN description
                    ELSE eventData.description
  /\ duration' = eventData.duration
  /\ organizerName' = eventData.organizerName
  /\ createdAt' = eventData.createdAt
  /\ Did("storeEventData", <<>>, <<>>)
  /\ UNCHANGED <<participants, scheduleBlocks, now, otherVars>>

storeEventData(eventData) ==
  /\ StepBound
  /\ eventId' = eventData.eventId
  /\ title' = eventData.title
  /\ description' = eventData.description
  /\ duration' = eventData.duration
  /\ organizerName' = eventData.organizerName
  /\ createdAt' = eventData.createdAt
  /\ Did("storeEventData", <<>>, <<>>)
  /\ UNCHANGED <<participants, scheduleBlocks, now, otherVars>>

restoreParticipant(participantId, participantData) ==
  /\ StepBound
  /\ participants' = withParticipant(participants, participantId, participantData)
  /\ Did("restoreParticipant", participantId, <<>>)
  /\ UNCHANGED <<metaVars, scheduleBlocks, now, otherVars>>

\* Variant of syncParticipantSchedule whose set() replaces the state by the
\* returned object instead of merging it: the event fields are lost.
syncParticipantSchedule_Replace(participantId, blocks) ==
  /\ StepBound
  /\ \E ids \in FreshIds(Len(blocks)) :
       scheduleBlocks' =
         newScheduleBlocks(scheduleBlocks, participantId, blocks, ids)
  /\ eventId' = Null
  /\ title' = Null
  /\ Did("syncParticipantSchedule", participantId, blocks)
  /\ UNCHANGED <<description, duration, organizerName, createdAt,
                 participants, now, otherVars>>

syncParticipantSchedule(participantId, blocks) ==
  /\ StepBound
  /\ \E ids \in FreshIds(Len(blocks)) :
       scheduleBlocks' =
         newScheduleBlocks(scheduleBlocks, participantId, blocks, ids)
  /\ Did("syncParticipantSchedule", participantId, blocks)
  /\ UNCHANGED <<metaVars, participants, now, otherVars>>

\* The wall clock advances.
Tick ==
  /\ now < MaxNow
  /\ now' = now + 1
  /\ UNCHANGED <<docVars, lastOp, otherVars>>

\* createEventStore: the initial state of the document.
Init ==
  /\ eventId = Null
  /\ title = Null
  /\ description = Undefined
  /\ duration = 60
  /\ organizerName = Null
  /\ createdAt = NullNumber
  /\ participants = <<>>
  /\ scheduleBlocks = <<>>
  /\ now = 0
  /\ selectedDuration = 30
  /\ timeSlots = <<>>
  /\ commonSlots = <<>>
  /\ googleEvents = <<>>
  /\ transformed = <<>>
  /\ workerResponse = NoResponse
  /\ NotMounted
  /\ NoReplicas
  /\ lastOp = [op |-> "init", id |-> <<>>, arg |-> <<>>, run |-> 0, n |-> 0]

Next ==
  \/ \E name \in Names : addParticipant(name)
  \/ \E id \in ParticipantIds, updates \in PartialUpdates :
       updateParticipantState(id, updates)
  \/ \E id \in ParticipantIds, connected \in BOOLEAN :
       updateCalendarSyncStatus(id, connected)
  \/ \E eventData \in EventDatas : storeEventData(eventData)
  \/ \E id \in ParticipantIds, data \in RestoreData :
       restoreParticipant(id, data)
  \/ \E id \in ParticipantIds, blocks \in BlockLists :
       syncParticipantSchedule(id, blocks)
  \/ Tick

Spec == Init /\ [][Next]_vars

----------------------------------------------------------------------------
(* AvailabilityView and findCommonAvailability *)

InvalidDate == 0 - 1      \* new Date(undefined): every comparison is false

MinutesPerDay == 24 * 60

\* new Date(s) as minutes on the local clock; a date-only string is read as
\* midnight (the browser's zone is taken to be UTC).
NewDate(s) ==
  CASE s.kind = "dateTime" -> s.v
    [] s.kind = "date" -> s.v * MinutesPerDay
    [] OTHER -> InvalidDate

\* Date comparisons: false as soon as one side is an Invalid Date.
DateLess(x, y) == x # InvalidDate /\ y # InvalidDate /\ x < y
DateLessEq(x, y) == x # InvalidDate /\ y # InvalidDate /\ x <= y

startHour == 9
endHour == 23

\* Variant of the overlap test with closed interval ends.
blockedSlot_Closed(block, slotTime, slotEnd) ==
  /\ DateLessEq(NewDate(block.startTime), slotEnd)
  /\ DateLessEq(slotTime, NewDate(block.endTime))

\* blockStart < slotEnd && blockEnd > slotTime
blockedSlot(block, slotTime, slotEnd) ==
  /\ DateLess(NewDate(block.startTime), slotEnd)
  /\ DateLess(slotTime, NewDate(block.endTime))

\* participantSchedule.some(...) over the blocks under `${participant.id}-`
hasConflict(blocks, participantId, slotTime, slotEnd) ==
  \E k \in DOMAIN blocks :
    /\ startsWith(k, keyPrefix(participantId))
    /\ blockedSlot(blocks[k], slotTime, slotEnd)

\* Variant of the status rule that evaluates past slots like future ones.
slotStatus_IgnorePast(calendarConnected, isPast, conflict) ==
  IF ~calendarConnected THEN "unknown"
  ELSE IF conflict THEN "busy" ELSE "available"

\* The status one participant gets in one slot: the forEach over
\* connectedParticipants, then the forEach that marks the others unknown.
slotStatus(calendarConnected, isPast, conflict) ==
  IF ~calendarConnected THEN "unknown"
  ELSE IF isPast THEN "unknown"
  ELSE IF conflict THEN "busy" ELSE "available"

\* One TimeSlot of the grid.
TimeSlot(parts, blocks, slotDuration, hour, minute, t) ==
  LET slotTime == hour * 60 + minute
      slotEnd == slotTime + slotDuration
      isPast == slotEnd <= t
  IN  [ hour |-> hour, minute |-> minute, isPast |-> isPast,
        availability |->
          [id \in DOMAIN parts |->
             slotStatus(parts[id].calendarConnected, isPast,
                        hasConflict(blocks, id, slotTime, slotEnd))] ]

\* Variant of the grid whose hour loop runs up to endHour inclusive.
computeTimeSlots_InclusiveEnd(parts, blocks, slotDuration, t) ==
  LET perHour == (59 \div slotDuration) + 1
      count == (endHour + 1 - startHour) * perHour
  IN  [i \in 1..count |->
         TimeSlot(parts, blocks, slotDuration,
                  startHour + ((i - 1) \div perHour),
                  ((i - 1) % perHour) * slotDuration, t)]

\* for (hour = startHour; hour < endHour; hour++)
\*   for (minute = 0; minute < 60; minute += slotDuration)
computeTimeSlots(parts, blocks, slotDuration, t) ==
  LET perHour == (59 \div slotDuration) + 1
      count == (endHour - startHour) * perHour
  IN  [i \in 1..count |->
         TimeSlot(parts, blocks, slotDuration,
                  startHour + ((i - 1) \div perHour),
                  ((i - 1) % perHour) * slotDuration, t)]

connectedParticipants(parts) ==
  { id \in DOMAIN parts : parts[id].calendarConnected }

Gray200 == "bg-gray-200 border-gray-300"
Gray100 == "bg-gray-100"
Green == "bg-green-100 border-green-200"
Red == "bg-red-100 border-red-200"

\* Variant of getSlotColor that is green as soon as someone is available.
getSlotColor_Some(slot, parts) ==
  IF slot.isPast THEN Gray200
  ELSE IF connectedParticipants(parts) = {} THEN Gray100
  ELSE IF \E id \in connectedParticipants(parts) :
            slot.availability[id] = "available"
       THEN Green
       ELSE Red

getSlotColor(slot, parts) ==
  IF slot.isPast THEN Gray200
  ELSE IF connectedParticipants(parts) = {} THEN Gray100
  ELSE IF \A id \in connectedParticipants(parts) :
            slot.availability[id] = "available"
       THEN Green
       ELSE Red

\* Object.keys(participants) in a fixed order (insertion order is not kept).
IdOrder == << <<"a">>, <<"b">>, <<"a", "-", "b">> >>

\* The conflicts list findCommonAvailability builds for one slot.
slotConflicts(parts, blocks, slotStart, slotEnd, t) ==
  LET conflicting(id) ==
        /\ id \in DOMAIN parts
        /\ \/ ~parts[id].calendarConnected
           \/ hasConflict(blocks, id, slotStart, slotEnd)
      ids == SelectSeq(IdOrder, conflicting)
      names == [i \in 1..Len(ids) |-> parts[ids[i]].name]
  IN  IF slotEnd <= t THEN Append(names, "Past time") ELSE names

storeSlotDuration == 30

\* findCommonAvailability(date, duration) for the selected date; the
\* duration argument is not read.
findCommonAvailability(parts, blocks, durationArg, t) ==
  LET dayStart == 9 * 60
      dayEnd == 23 * 60
      count == ((dayEnd - dayStart) + storeSlotDuration - 1) \div storeSlotDuration
  IN  [i \in 1..count |->
         LET slotStart == dayStart + (i - 1) * storeSlotDuration
             slotEnd == slotStart + storeSlotDuration
             conflicts == slotConflicts(parts, blocks, slotStart, slotEnd, t)
         IN  [ start |-> slotStart, end |-> slotEnd,
               available |-> Len(conflicts) = 0,
               conflicts |-> conflicts ]]

\* ---- inputs of the view specification ----

ViewBlocks ==
  { ScheduleBlock(DateTimeStr(600), DateTimeStr(630), 0),
    ScheduleBlock(DateTimeStr(615), DateTimeStr(645), 0),
    ScheduleBlock(UndefinedStr, DateTimeStr(630), 0),
    ScheduleBlock(DateStr(0), DateStr(1), 0) }

ViewKeys == { <<"a", "-", "a">>, <<"a", "-", "b">>, <<"b", "-", "a">> }

ViewBlockMaps == UNION { [keys -> ViewBlocks] : keys \in SUBSET ViewKeys }

ViewParticipantMaps ==
  UNION { [ids -> { EventParticipant("Ann", 0, c, PARTICIPANT_COLORS[1]) :
                      c \in BOOLEAN }] : ids \in SUBSET generateId }

\* Clock values: before the grid, on a slot boundary inside it, after it.
NowValues == { 0, 630, 1500 }

SlotDurations == { 30, 60 }       \* the <option> values of the select

InitView ==
  /\ eventId = "ev1"
  /\ title = "Standup"
  /\ description = Undefined
  /\ duration = 60
  /\ organizerName = "Ann"
  /\ createdAt = 0
  /\ participants \in ViewParticipantMaps
  /\ scheduleBlocks \in ViewBlockMaps
  /\ now \in NowValues
  /\ selectedDuration = 30
  /\ timeSlots = <<>>
  /\ commonSlots = <<>>
  /\ googleEvents = <<>>
  /\ transformed = <<>>
  /\ workerResponse = NoResponse
  /\ NotMounted
  /\ NoReplicas
  /\ lastOp = [op |-> "init", id |-> <<>>, arg |-> <<>>, run |-> 0, n |-> 0]

\* A render of AvailabilityView: the useMemo body runs.
RenderAvailabilityView ==
  /\ timeSlots' = computeTimeSlots(participants, scheduleBlocks,
                                   selectedDuration, now)
  /\ UNCHANGED <<docVars, selectedDuration, commonSlots, now, lastOp, syncVars, flowVars, replicaVars>>

\* onChange of the duration select, and the render it causes.
SelectDuration(d) ==
  /\ selectedDuration' = d
  /\ timeSlots' = computeTimeSlots(participants, scheduleBlocks, d, now)
  /\ UNCHANGED <<docVars, commonSlots, now, lastOp, syncVars, flowVars, replicaVars>>

CallFindCommonAvailability(durationArg) ==
  /\ commonSlots' = findCommonAvailability(participants, scheduleBlocks,
                                           durationArg, now)
  /\ UNCHANGED <<docVars, selectedDuration, timeSlots, now, lastOp, syncVars, flowVars, replicaVars>>

NextView ==
  \/ RenderAvailabilityView
  \/ \E d \in SlotDurations : SelectDuration(d)
  \/ \E d \in SlotDurations : CallFindCommonAvailability(d)

SpecView == InitView /\ [][NextView]_vars

----------------------------------------------------------------------------
(* Calendar transforms of the worker, and the clients that store blocks *)

MaxEvents == 2      \* longest event list the Calendar API returns
MaxDrift == 1       \* how far the clock may advance during one mapping pass

\* GoogleCalendarEvent.start / .end: present or not, with dateTime and date.
EventTime(dateTime, date) ==
  [present |-> TRUE, dateTime |-> dateTime, date |-> date]

NoEventTime ==
  [present |-> FALSE, dateTime |-> UndefinedStr, date |-> UndefinedStr]

\* A GoogleCalendarEvent; summary and location stand for the private fields.
GoogleCalendarEvent(id, start, end, status) ==
  [id |-> id, summary |-> "Dentist", location |-> "Clinic",
   start |-> start, end |-> end, status |-> status]

\* Truthiness of a time string, and a || b.
Truthy(s) == s.kind # "undefined"
OrElse(a, b) == IF Truthy(a) THEN a ELSE b

\* Variant of the resolution that prefers the date.
resolveTime_DateFirst(eventTime) == OrElse(eventTime.date, eventTime.dateTime)

\* event.start.dateTime || event.start.date
resolveTime(eventTime) == OrElse(eventTime.dateTime, eventTime.date)

createScheduleBlock(startTime, endTime, lastSyncAt) ==
  [startTime |-> startTime, endTime |-> endTime, lastSyncAt |-> lastSyncAt]

\* Variant of the filter that keeps cancelled events.
keepEvent_IgnoreStatus(event) ==
  /\ ~(event.id = Undefined \/ ~event.start.present \/ ~event.end.present)
  /\ ~(~Truthy(resolveTime(event.start)) \/ ~Truthy(resolveTime(event.end)))

\* The events transformGoogleEventsToScheduleBlocks does not skip.
keepEvent(event) ==
  /\ ~(event.id = Undefined \/ ~event.start.present \/ ~event.end.present)
  /\ ~(event.status = "cancelled")
  /\ ~(~Truthy(resolveTime(event.start)) \/ ~Truthy(resolveTime(event.end)))

\* Variant of the transform that copies the event into the block.
transformGoogleEventsToScheduleBlocks_Spread(events, participantId, t) ==
  LET kept == SelectSeq(events, keepEvent)
  IN  [i \in 1..Len(kept) |->
         [f \in DOMAIN kept[i] \cup {"startTime", "endTime", "lastSyncAt"} |->
            CASE f = "startTime" -> resolveTime(kept[i].start)
              [] f = "endTime" -> resolveTime(kept[i].end)
              [] f = "lastSyncAt" -> t
              [] OTHER -> kept[i][f]]]

\* transformGoogleEventsToScheduleBlocks; t is the Date.now() taken once.
transformGoogleEventsToScheduleBlocks(events, participantId, t) ==
  LET kept == SelectSeq(events, keepEvent)
  IN  [i \in 1..Len(kept) |->
         createScheduleBlock(resolveTime(kept[i].start),
                             resolveTime(kept[i].end), t)]

\* sha256(signature).digest('hex').substring(0, 15): one id per signature.
hashId(startTime, endTime, participantId) ==
  << ToString(<<startTime, endTime, participantId>>) >>

\* generatePrivacyPreservingBlockId; randomId is the Math.random fallback.
generatePrivacyPreservingBlockId(googleEvent, participantId, randomId) ==
  LET startTime == IF googleEvent.start.present
                   THEN resolveTime(googleEvent.start) ELSE UndefinedStr
      endTime == IF googleEvent.end.present
                 THEN resolveTime(googleEvent.end) ELSE UndefinedStr
  IN  IF ~Truthy(startTime) \/ ~Truthy(endTime) THEN randomId
      ELSE hashId(startTime, endTime, participantId)

\* scheduleBlocksToDocumentFormat: block number i is keyed by the event at
\* position i of the unfiltered list; a later block under the same key wins.
scheduleBlocksToDocumentFormat(blocks, participantId, events, ids) ==
  LET keyOf(i) ==
        participantId \o Dash \o
          (IF i <= Len(events)
           THEN generatePrivacyPreservingBlockId(events[i], participantId, ids[i])
           ELSE ids[i])
      keys == { keyOf(i) : i \in DOMAIN blocks }
      lastOf(k) == CHOOSE i \in DOMAIN blocks :
                     /\ keyOf(i) = k
                     /\ \A j \in DOMAIN blocks : keyOf(j) = k => j <= i
  IN  [k \in keys |-> blocks[lastOf(k)]]

\* Object.values(record) in some order.
ObjectValues(record) ==
  LET n == Cardinality(DOMAIN record)
      order == CHOOSE o \in [1..n -> DOMAIN record] :
                 \A i, j \in 1..n : i # j => o[i] # o[j]
  IN  [i \in 1..n |-> record[order[i]]]

\* The browser's mapping in fetchAndSyncCalendar; stamps[i] is the
\* Date.now() read for the i-th mapped event.
browserScheduleBlocks(items, stamps) ==
  LET kept == SelectSeq(items, LAMBDA event : event.start.present /\ event.end.present)
  IN  [i \in 1..Len(kept) |->
         [startTime |-> resolveTime(kept[i].start),
          endTime |-> resolveTime(kept[i].end),
          lastSyncAt |-> stamps[i]]]

\* Successive Date.now() readings starting at t: they never decrease.
ClockReadings(n, t) ==
  { st \in [1..n -> t..(t + MaxDrift)] :
      /\ n > 0 => st[1] = t
      /\ \A i, j \in 1..n : i <= j => st[i] <= st[j] }

\* n distinct outcomes of Math.random().toString(36); the keys built from
\* them below are only ever compared for equality, so one representative
\* of the fresh outcomes is drawn.
someFreshIds(n) == [i \in 1..n |-> <<IdChars[i]>>]

\* ---- inputs of the sync specification ----

currentParticipantId == <<"a">>

TimedStart == EventTime(DateTimeStr(600), UndefinedStr)
TimedEnd == EventTime(DateTimeStr(630), UndefinedStr)
AllDayStart == EventTime(UndefinedStr, DateStr(0))
AllDayEnd == EventTime(UndefinedStr, DateStr(1))
EmptyTime == EventTime(UndefinedStr, UndefinedStr)

CalendarEvents ==
  { GoogleCalendarEvent("e1", TimedStart, TimedEnd, "confirmed"),
    GoogleCalendarEvent("e2", AllDayStart, AllDayEnd, "confirmed"),
    GoogleCalendarEvent("e3", EventTime(DateTimeStr(615), DateStr(0)),
                        EventTime(DateTimeStr(645), DateStr(1)), "tentative"),
    GoogleCalendarEvent(Undefined, TimedStart, TimedEnd, "confirmed"),
    GoogleCalendarEvent("e4", TimedStart, TimedEnd, "cancelled"),
    GoogleCalendarEvent("e5", TimedStart, NoEventTime, "confirmed"),
    GoogleCalendarEvent("e7", NoEventTime, TimedEnd, "confirmed"),
    GoogleCalendarEvent("e8", EmptyTime, AllDayEnd, "confirmed"),
    GoogleCalendarEvent("e9", NoEventTime, NoEventTime, "confirmed"),
    GoogleCalendarEvent("e10", EmptyTime, EmptyTime, "confirmed") }

EventLists == UNION { [1..n -> CalendarEvents] : n \in 0..MaxEvents }

\* A block left by an earlier sync of the participant.
OldBlock == ScheduleBlock(DateTimeStr(900), DateTimeStr(960), 1)

Mark(name) ==
  lastOp' = [op |-> name, id |-> currentParticipantId, arg |-> <<>>,
             run |-> 0, n |-> 0]

InitSync ==
  /\ eventId = "ev1"
  /\ title = "Standup"
  /\ description = Undefined
  /\ duration = 60
  /\ organizerName = "Ann"
  /\ createdAt = 1
  /\ participants = (currentParticipantId :>
                       EventParticipant("Ann", 1, TRUE, PARTICIPANT_COLORS[1]))
  /\ scheduleBlocks \in
       { <<>>, (blockKey(currentParticipantId, <<"a">>) :> OldBlock) }
  /\ googleEvents \in EventLists
  /\ transformed = <<>>
  /\ workerResponse = NoResponse
  /\ NotMounted
  /\ NoReplicas
  /\ now = 2
  /\ selectedDuration = 30
  /\ timeSlots = <<>>
  /\ commonSlots = <<>>
  /\ lastOp = [op |-> "init", id |-> <<>>, arg |-> <<>>, run |-> 0, n |-> 0]

\* Variant of the forEach body without its first guard.
eventThrows_Unguarded(event) ==
  LET returnsEarly == event.id = Undefined \/ event.status = "cancelled"
  IN  ~returnsEarly /\ (~event.start.present \/ ~event.end.present)

\* Whether the forEach body of the transform throws on the event: it reads
\* event.start.dateTime and event.end.dateTime, a TypeError when start or
\* end is undefined, unless it returned before.
eventThrows(event) ==
  LET returnsEarly ==
        \/ event.id = Undefined \/ ~event.start.present \/ ~event.end.present
        \/ event.status = "cancelled"
  IN  ~returnsEarly /\ (~event.start.present \/ ~event.end.present)

transformThrows(events) == \E i \in DOMAIN events : eventThrows(events[i])

\* Worker: syncParticipantScheduleForEvent answers POST /calendar/schedule/sync;
\* an exception of the transform is rethrown and answered without success.
syncParticipantScheduleForEvent(participantId) ==
  LET blocks == transformGoogleEventsToScheduleBlocks(googleEvents,
                                                      participantId, now)
  IN  /\ IF transformThrows(googleEvents)
         THEN /\ workerResponse' =
                   [success |-> FALSE, participantId |-> participantId,
                    scheduleBlockCount |-> 0, scheduleBlocks |-> <<>>]
              /\ transformed' = <<>>
         ELSE /\ \E ids \in {someFreshIds(Len(blocks))} :
                   workerResponse' =
                     [success |-> TRUE, participantId |-> participantId,
                      scheduleBlockCount |-> Len(blocks),
                      scheduleBlocks |->
                        scheduleBlocksToDocumentFormat(blocks, participantId,
                                                       googleEvents, ids)]
              /\ transformed' = blocks
      /\ Mark("syncParticipantScheduleForEvent")
      /\ UNCHANGED <<docVars, viewVars, flowVars, replicaVars, googleEvents, now>>

\* Client (server-side OAuth variant): syncParticipantSchedule stores the
\* blocks of the worker's reply.
storeWorkerBlocks ==
  /\ workerResponse.success
  /\ workerResponse.participantId = currentParticipantId
  /\ LET values == ObjectValues(workerResponse.scheduleBlocks)
         blocks == [i \in DOMAIN values |->
                      [startTime |-> values[i].startTime,
                       endTime |-> values[i].endTime,
                       lastSyncAt |-> IF values[i].lastSyncAt # 0
                                      THEN values[i].lastSyncAt ELSE now]]
     IN  \E ids \in {someFreshIds(Len(blocks))} :
           scheduleBlocks' = newScheduleBlocks(scheduleBlocks,
                               currentParticipantId, blocks, ids)
  /\ Mark("storeWorkerBlocks")
  /\ UNCHANGED <<metaVars, participants, viewVars, syncVars, flowVars, replicaVars, now>>

\* Client (browser OAuth variant): fetchAndSyncCalendar got the items and
\* stores the mapped blocks.
fetchAndSyncCalendarItems ==
  LET kept == SelectSeq(googleEvents,
                        LAMBDA event : event.start.present /\ event.end.present)
  IN  /\ \E stamps \in ClockReadings(Len(kept), now) :
           \E ids \in {someFreshIds(Len(kept))} :
             scheduleBlocks' =
               newScheduleBlocks(scheduleBlocks, currentParticipantId,
                                 browserScheduleBlocks(googleEvents, stamps), ids)
      /\ Mark("fetchAndSyncCalendar")
      /\ UNCHANGED <<metaVars, participants, viewVars, syncVars, flowVars, replicaVars, now>>

\* Client: fetchAndSyncCalendar got a response without items.
fetchAndSyncCalendarNoItems ==
  /\ googleEvents = <<>>
  /\ Mark("fetchAndSyncCalendarNoItems")
  /\ UNCHANGED <<docVars, viewVars, syncVars, flowVars, replicaVars, now>>

\* Store: loadParticipantSchedule; GET /calendar/schedule answers with an
\* empty block list.
loadParticipantSchedule(participantId) ==
  /\ eventId # Null
  /\ LET data == [success |-> TRUE, scheduleBlocks |-> <<>>]
         blocks == [i \in DOMAIN data.scheduleBlocks |->
                      [startTime |-> data.scheduleBlocks[i].startTime,
                       endTime |-> data.scheduleBlocks[i].endTime,
                       lastSyncAt |-> data.scheduleBlocks[i].lastSyncAt]]
     IN  scheduleBlocks' = newScheduleBlocks(scheduleBlocks, participantId,
                                             blocks, <<>>)
  /\ Mark("loadParticipantSchedule")
  /\ UNCHANGED <<metaVars, participants, viewVars, syncVars, flowVars, replicaVars, now>>

\* Client (server-side OAuth variant): handleDisconnectCalendar after its
\* await fetch(/auth/disconnect); when the fetch rejects, the catch only logs.
handleDisconnectCalendarServer(fetchOk) ==
  /\ participants[currentParticipantId].calendarConnected
  /\ IF fetchOk
     THEN /\ participants' =
               withParticipant(participants, currentParticipantId,
                 mergeParticipant(participants[currentParticipantId],
                                  [calendarConnected |-> FALSE]))
          /\ Mark("handleDisconnectCalendar")
     ELSE /\ UNCHANGED participants
          /\ Mark("handleDisconnectCalendarFailed")
  /\ UNCHANGED <<metaVars, scheduleBlocks, viewVars, syncVars, flowVars,
                 replicaVars, now>>

NextSync ==
  \/ \E fetchOk \in BOOLEAN : handleDisconnectCalendarServer(fetchOk)
  \/ syncParticipantScheduleForEvent(currentParticipantId)
  \/ storeWorkerBlocks
  \/ fetchAndSyncCalendarItems
  \/ fetchAndSyncCalendarNoItems
  \/ loadParticipantSchedule(currentParticipantId)

SpecSync == InitSync /\ [][NextSync]_vars

----------------------------------------------------------------------------
(* CalendarIntegration, browser OAuth variant: the control flow of a sync *)

MaxInFlight == 2    \* most sync calls suspended at an await at one time

\* A sync call suspended at an await: where it waits, whether it is the
\* silent auto-sync, and whether the participant was connected when it began.
SyncCall(pc, silent, connectedAtStart) ==
  [pc |-> pc, silent |-> silent, connectedAtStart |-> connectedAtStart]

RemoveAt(seq, i) == [j \in 1..(Len(seq) - 1) |-> IF j < i THEN seq[j] ELSE seq[j + 1]]
ReplaceAt(seq, i, x) == [seq EXCEPT ![i] = x]

\* currentParticipant?.calendarConnected
calendarConnected(parts) == parts[currentParticipantId].calendarConnected

\* updateParticipantState(currentParticipantId, { calendarConnected: value })
withCalendarConnected(parts, value) ==
  IF currentParticipantId \notin DOMAIN parts THEN parts
  ELSE withParticipant(parts, currentParticipantId,
         mergeParticipant(parts[currentParticipantId],
                          [calendarConnected |-> value]))

\* The cleanup of the visibility effect: it clears the debounce timer when
\* one of the effect's dependencies changed in this step.
effectCleanup ==
  debounceTimeout' =
    (debounceTimeout /\
       <<calendarConnected(participants'), isSyncing', isAutoSyncing',
         isGoogleLoaded'>> =
       <<calendarConnected(participants), isSyncing, isAutoSyncing,
         isGoogleLoaded>>)

Step(name, arg) ==
  lastOp' = [op |-> name, id |-> currentParticipantId, arg |-> arg,
             run |-> 0, n |-> 0]

\* The calendars the flow specification fetches.
FlowCalendars ==
  { <<>>, << GoogleCalendarEvent("e1", TimedStart, TimedEnd, "confirmed") >> }

\* The participant as the component finds it when it mounts: newly joined,
\* or connected earlier with a token that is valid, expired or gone.
MountStates ==
  { [calendarConnected |-> FALSE, storedToken |-> "none", blocks |-> <<>>],
    [calendarConnected |-> TRUE, storedToken |-> "valid",
     blocks |-> (blockKey(currentParticipantId, <<"a">>) :> OldBlock)],
    [calendarConnected |-> TRUE, storedToken |-> "expired",
     blocks |-> (blockKey(currentParticipantId, <<"a">>) :> OldBlock)],
    [calendarConnected |-> TRUE, storedToken |-> "none",
     blocks |-> (blockKey(currentParticipantId, <<"a">>) :> OldBlock)] }

InitFlow ==
  /\ eventId = "ev1"
  /\ title = "Standup"
  /\ description = Undefined
  /\ duration = 60
  /\ organizerName = "Ann"
  /\ createdAt = 1
  /\ \E m \in MountStates :
       /\ participants =
            (currentParticipantId :>
               EventParticipant("Ann", 1, m.calendarConnected,
                                PARTICIPANT_COLORS[1]))
       /\ scheduleBlocks = m.blocks
       /\ storedToken = m.storedToken
       /\ mountCheck = [pending |-> TRUE,
                        calendarConnected |-> m.calendarConnected]
  /\ googleEvents \in FlowCalendars
  /\ transformed = <<>>
  /\ workerResponse = NoResponse
  /\ isGoogleLoaded = FALSE
  /\ isSyncing = FALSE
  /\ isAutoSyncing = FALSE
  /\ syncError = Null
  /\ syncSuccess = FALSE
  /\ successTimer = FALSE
  /\ lastSyncTime = NullNumber
  /\ gapiToken = Null
  /\ inFlight = <<>>
  /\ debounceTimeout = FALSE
  /\ NoReplicas
  /\ now = 2
  /\ selectedDuration = 30
  /\ timeSlots = <<>>
  /\ commonSlots = <<>>
  /\ lastOp = [op |-> "init", id |-> <<>>, arg |-> <<>>, run |-> 0, n |-> 0]

\* What no step of the component touches.
flowFrame == <<metaVars, viewVars, syncVars, replicaVars, now>>

\* The effect that finds window.google and window.gapi.
checkGoogleLibraries ==
  /\ ~isGoogleLoaded
  /\ isGoogleLoaded' = TRUE
  /\ Step("checkGoogleLibraries", <<>>)
  /\ UNCHANGED <<flowFrame, participants, scheduleBlocks, isSyncing,
                 isAutoSyncing, syncError, syncSuccess, successTimer,
                 lastSyncTime, storedToken, gapiToken, inFlight, mountCheck>>
  /\ effectCleanup

\* checkTokenStatus resumes after await hasValidGoogleToken; it reads the
\* participant its closure captured at mount.  getGoogleToken removes an
\* expired token.
checkTokenStatus ==
  /\ mountCheck.pending
  /\ mountCheck' = [mountCheck EXCEPT !.pending = FALSE]
  /\ storedToken' = IF storedToken = "expired" THEN "none" ELSE storedToken
  /\ participants' =
       IF storedToken = "valid" /\ ~mountCheck.calendarConnected
       THEN withCalendarConnected(participants, TRUE)
       ELSE participants
  /\ Step("checkTokenStatus", <<>>)
  /\ UNCHANGED <<flowFrame, scheduleBlocks, uiVars, gapiToken, inFlight>>
  /\ effectCleanup

\* A click on a Sync button (disabled while isSyncing).
handleSyncGoogleCalendar ==
  /\ ~isSyncing
  /\ ~isGoogleLoaded \/ Len(inFlight) < MaxInFlight
  /\ IF ~isGoogleLoaded
     THEN /\ syncError' = "Google services not loaded"
          /\ UNCHANGED <<isSyncing, syncSuccess, inFlight>>
     ELSE /\ isSyncing' = TRUE
          /\ syncError' = Null
          /\ syncSuccess' = FALSE
          /\ inFlight' = Append(inFlight,
               SyncCall("getGoogleToken", FALSE,
                        calendarConnected(participants)))
  /\ Step("handleSyncGoogleCalendar", <<>>)
  /\ UNCHANGED <<flowFrame, participants, scheduleBlocks, isGoogleLoaded,
                 isAutoSyncing, successTimer, lastSyncTime, storedToken,
                 gapiToken, mountCheck>>
  /\ effectCleanup

\* The tab became visible: the debounce timer is (re)armed.
handleVisibilityChange ==
  /\ calendarConnected(participants)
  /\ ~isSyncing
  /\ ~isAutoSyncing
  /\ debounceTimeout' = TRUE
  /\ Step("handleVisibilityChange", <<>>)
  /\ UNCHANGED <<flowFrame, participants, scheduleBlocks, uiVars, storedToken,
                 gapiToken, inFlight, mountCheck>>

\* The debounce timer fires: performSilentSync up to its first await.
performSilentSync ==
  /\ debounceTimeout
  /\ ~isGoogleLoaded \/ isSyncing \/ isAutoSyncing
       \/ Len(inFlight) < MaxInFlight
  /\ IF ~isGoogleLoaded \/ isSyncing \/ isAutoSyncing
     THEN UNCHANGED <<isAutoSyncing, inFlight>>
     ELSE /\ isAutoSyncing' = TRUE
          /\ inFlight' = Append(inFlight,
               SyncCall("getGoogleToken", TRUE,
                        calendarConnected(participants)))
  /\ debounceTimeout' = FALSE
  /\ Step("performSilentSync", <<>>)
  /\ UNCHANGED <<flowFrame, participants, scheduleBlocks, isGoogleLoaded,
                 isSyncing, syncError, syncSuccess, successTimer,
                 lastSyncTime, storedToken, gapiToken, mountCheck>>

\* await getGoogleToken resolves in call i.  With a token the call goes on
\* into fetchAndSyncCalendar up to await events.list; without one the manual
\* sync opens the OAuth popup and the silent sync ends.
getGoogleTokenResolved(i) ==
  /\ inFlight[i].pc = "getGoogleToken"
  /\ storedToken' = IF storedToken = "expired" THEN "none" ELSE storedToken
  /\ IF storedToken = "valid"
     THEN /\ gapiToken' = "access_token"
          /\ inFlight' = ReplaceAt(inFlight, i,
                                   [inFlight[i] EXCEPT !.pc = "events.list"])
          /\ UNCHANGED isAutoSyncing
     ELSE IF inFlight[i].silent
     THEN /\ isAutoSyncing' = FALSE
          /\ inFlight' = RemoveAt(inFlight, i)
          /\ UNCHANGED gapiToken
     ELSE /\ inFlight' = ReplaceAt(inFlight, i,
                           [inFlight[i] EXCEPT !.pc = "requestAccessToken"])
          /\ UNCHANGED <<gapiToken, isAutoSyncing>>
  /\ Step("getGoogleToken", inFlight[i])
  /\ UNCHANGED <<flowFrame, participants, scheduleBlocks, isGoogleLoaded,
                 isSyncing, syncError, syncSuccess, successTimer,
                 lastSyncTime, mountCheck>>
  /\ effectCleanup

\* await getGoogleToken rejects in call i (localStorage.getItem throws):
\* the catch of handleSyncGoogleCalendar ends the manual sync, the catch and
\* finally of performSilentSync end the silent one.
getGoogleTokenRejected(i) ==
  /\ inFlight[i].pc = "getGoogleToken"
  /\ IF inFlight[i].silent
     THEN /\ isAutoSyncing' = FALSE
          /\ UNCHANGED <<syncError, isSyncing>>
     ELSE /\ syncError' = "Failed to sync calendar"
          /\ isSyncing' = FALSE
          /\ UNCHANGED isAutoSyncing
  /\ inFlight' = RemoveAt(inFlight, i)
  /\ Step("getGoogleTokenRejected", inFlight[i])
  /\ UNCHANGED <<flowFrame, participants, scheduleBlocks, isGoogleLoaded,
                 syncSuccess, successTimer, lastSyncTime, storedToken,
                 gapiToken, mountCheck>>
  /\ effectCleanup

\* The OAuth popup calls back with an error.
tokenCallbackError(i) ==
  /\ inFlight[i].pc = "requestAccessToken"
  /\ syncError' = "Authentication failed"
  /\ isSyncing' = FALSE
  /\ inFlight' = RemoveAt(inFlight, i)
  /\ Step("tokenCallbackError", inFlight[i])
  /\ UNCHANGED <<flowFrame, participants, scheduleBlocks, isGoogleLoaded,
                 isAutoSyncing, syncSuccess, successTimer, lastSyncTime,
                 storedToken, gapiToken, mountCheck>>
  /\ effectCleanup

\* The OAuth popup calls back with a token: await storeGoogleToken begins.
tokenCallbackGranted(i) ==
  /\ inFlight[i].pc = "requestAccessToken"
  /\ inFlight' = ReplaceAt(inFlight, i,
                           [inFlight[i] EXCEPT !.pc = "storeGoogleToken"])
  /\ Step("tokenCallbackGranted", inFlight[i])
  /\ UNCHANGED <<flowFrame, participants, scheduleBlocks, uiVars, storedToken,
                 gapiToken, debounceTimeout, mountCheck>>

\* await storeGoogleToken resolves: the callback marks the participant
\* connected and enters fetchAndSyncCalendar up to await events.list.
storeGoogleTokenResolved(i) ==
  /\ inFlight[i].pc = "storeGoogleToken"
  /\ storedToken' = "valid"
  /\ participants' = withCalendarConnected(participants, TRUE)
  /\ gapiToken' = "access_token"
  /\ inFlight' = ReplaceAt(inFlight, i,
                           [inFlight[i] EXCEPT !.pc = "events.list"])
  /\ Step("storeGoogleToken", inFlight[i])
  /\ UNCHANGED <<flowFrame, scheduleBlocks, uiVars, mountCheck>>
  /\ effectCleanup

\* await storeGoogleToken rejects (crypto.subtle or localStorage.setItem
\* throws): the async callback has no try around it, so the callback ends
\* there and no state of the component is set.
storeGoogleTokenRejected(i) ==
  /\ inFlight[i].pc = "storeGoogleToken"
  /\ inFlight' = RemoveAt(inFlight, i)
  /\ Step("storeGoogleTokenRejected", inFlight[i])
  /\ UNCHANGED <<flowFrame, participants, scheduleBlocks, uiVars, storedToken,
                 gapiToken, debounceTimeout, mountCheck>>

\* The finally block of fetchAndSyncCalendar, and the finally block of
\* performSilentSync when the call is the silent one.
fetchFinally(i) ==
  /\ isSyncing' = FALSE
  /\ gapiToken' = Null
  /\ isAutoSyncing' = IF inFlight[i].silent THEN FALSE ELSE isAutoSyncing
  /\ inFlight' = RemoveAt(inFlight, i)

\* events.list resolves without items.
eventsListNoItems(i) ==
  /\ inFlight[i].pc = "events.list"
  /\ googleEvents = <<>>
  /\ syncSuccess' = IF inFlight[i].silent THEN syncSuccess ELSE TRUE
  /\ lastSyncTime' = now
  /\ fetchFinally(i)
  /\ Step("eventsListNoItems", inFlight[i])
  /\ UNCHANGED <<flowFrame, participants, scheduleBlocks, isGoogleLoaded,
                 syncError, successTimer, storedToken, mountCheck>>
  /\ effectCleanup

\* events.list resolves with items: the mapped blocks replace the
\* participant's blocks.
eventsListItems(i) ==
  /\ inFlight[i].pc = "events.list"
  /\ LET kept == SelectSeq(googleEvents,
                   LAMBDA event : event.start.present /\ event.end.present)
     IN  \E stamps \in ClockReadings(Len(kept), now) :
           scheduleBlocks' =
             newScheduleBlocks(scheduleBlocks, currentParticipantId,
                               browserScheduleBlocks(googleEvents, stamps),
                               someFreshIds(Len(kept)))
  /\ syncSuccess' = IF inFlight[i].silent THEN syncSuccess ELSE TRUE
  /\ successTimer' = IF inFlight[i].silent THEN successTimer ELSE TRUE
  /\ lastSyncTime' = now
  /\ fetchFinally(i)
  /\ Step("eventsListItems", inFlight[i])
  /\ UNCHANGED <<flowFrame, participants, isGoogleLoaded, syncError,
                 storedToken, mountCheck>>
  /\ effectCleanup

\* events.list rejects.
eventsListRejected(i) ==
  /\ inFlight[i].pc = "events.list"
  /\ syncError' = IF inFlight[i].silent THEN syncError
                  ELSE "Failed to fetch calendar events"
  /\ fetchFinally(i)
  /\ Step("eventsListRejected", inFlight[i])
  /\ UNCHANGED <<flowFrame, participants, scheduleBlocks, isGoogleLoaded,
                 syncSuccess, successTimer, lastSyncTime, storedToken,
                 mountCheck>>
  /\ effectCleanup

\* A click on Disconnect (shown while the participant is connected).
handleDisconnectCalendar ==
  /\ calendarConnected(participants)
  /\ storedToken' = "none"
  /\ scheduleBlocks' = newScheduleBlocks(scheduleBlocks, currentParticipantId,
                                         <<>>, <<>>)
  /\ participants' = withCalendarConnected(participants, FALSE)
  /\ lastSyncTime' = NullNumber
  /\ syncSuccess' = FALSE
  /\ Step("handleDisconnectCalendar", <<>>)
  /\ UNCHANGED <<flowFrame, isGoogleLoaded, isSyncing, isAutoSyncing,
                 syncError, successTimer, gapiToken, inFlight, mountCheck>>
  /\ effectCleanup

\* setTimeout(() => setSyncSuccess(false), 3000) fires.
clearSyncSuccess ==
  /\ successTimer
  /\ successTimer' = FALSE
  /\ syncSuccess' = FALSE
  /\ Step("clearSyncSuccess", <<>>)
  /\ UNCHANGED <<flowFrame, participants, scheduleBlocks, isGoogleLoaded,
                 isSyncing, isAutoSyncing, syncError, lastSyncTime,
                 storedToken, gapiToken, inFlight, debounceTimeout,
                 mountCheck>>

\* Date.now() passes expires_at of the stored token.
tokenExpires ==
  /\ storedToken = "valid"
  /\ storedToken' = "expired"
  /\ Step("tokenExpires", <<>>)
  /\ UNCHANGED <<flowFrame, participants, scheduleBlocks, uiVars, gapiToken,
                 inFlight, debounceTimeout, mountCheck>>

NextFlow ==
  \/ checkGoogleLibraries
  \/ checkTokenStatus
  \/ handleSyncGoogleCalendar
  \/ handleVisibilityChange
  \/ performSilentSync
  \/ \E i \in DOMAIN inFlight : getGoogleTokenResolved(i)
  \/ \E i \in DOMAIN inFlight : getGoogleTokenRejected(i)
  \/ \E i \in DOMAIN inFlight : tokenCallbackError(i)
  \/ \E i \in DOMAIN inFlight : tokenCallbackGranted(i)
  \/ \E i \in DOMAIN inFlight : storeGoogleTokenResolved(i)
  \/ \E i \in DOMAIN inFlight : storeGoogleTokenRejected(i)
  \/ \E i \in DOMAIN inFlight : eventsListNoItems(i)
  \/ \E i \in DOMAIN inFlight : eventsListItems(i)
  \/ \E i \in DOMAIN inFlight : eventsListRejected(i)
  \/ handleDisconnectCalendar
  \/ clearSyncSuccess
  \/ tokenExpires

SpecFlow == InitFlow /\ [][NextFlow]_vars

\* Every awaited call settles and the OAuth popup calls back: a call that
\* waits at an await is eventually resumed, one way or the other.
awaitSettles(pc) ==
  \E i \in DOMAIN inFlight :
    /\ inFlight[i].pc = pc
    /\ \/ getGoogleTokenResolved(i) \/ getGoogleTokenRejected(i)
       \/ tokenCallbackError(i) \/ tokenCallbackGranted(i)
       \/ storeGoogleTokenResolved(i) \/ storeGoogleTokenRejected(i)
       \/ eventsListNoItems(i) \/ eventsListItems(i) \/ eventsListRejected(i)

SpecFlowFair ==
  /\ SpecFlow
  /\ WF_inFlight(awaitSettles("getGoogleToken"))
  /\ WF_inFlight(awaitSettles("requestAccessToken"))
  /\ WF_inFlight(awaitSettles("storeGoogleToken"))
  /\ WF_inFlight(awaitSettles("events.list"))

----------------------------------------------------------------------------
(* eventStore: participants joining one after another on one replica *)

MaxJoins == 9       \* most participants that join

\* The id generateId() returns for the next participant: one representative
\* of the outcomes that are not a key of participants.
nextParticipantId(parts) == << IdChars[Cardinality(DOMAIN parts) + 1] >>

InitJoin ==
  /\ eventId = "ev1"
  /\ title = "Standup"
  /\ description = Undefined
  /\ duration = 60
  /\ organizerName = "Ann"
  /\ createdAt = 1
  /\ participants = <<>>
  /\ scheduleBlocks = <<>>
  /\ googleEvents = <<>>
  /\ transformed = <<>>
  /\ workerResponse = NoResponse
  /\ NotMounted
  /\ NoReplicas
  /\ now \in 0..1
  /\ selectedDuration = 30
  /\ timeSlots = <<>>
  /\ commonSlots = <<>>
  /\ lastOp = [op |-> "init", id |-> <<>>, arg |-> <<>>, run |-> 0, n |-> 0]

\* addParticipant(name), called by handleParticipantSetup.
joinEvent(name) ==
  /\ Cardinality(DOMAIN participants) < MaxJoins
  /\ LET id == nextParticipantId(participants)
     IN  /\ participants' =
              withParticipant(participants, id,
                              newParticipant(participants, name, now))
         /\ lastOp' = [op |-> "addParticipant", id |-> id, arg |-> <<>>,
                       run |-> 0, n |-> 0]
  /\ UNCHANGED <<metaVars, scheduleBlocks, now, otherVars>>

NextJoin == \E name \in Names : joinEvent(name)

SpecJoin == InitJoin /\ [][NextJoin]_vars

----------------------------------------------------------------------------
(* Two replicas of the document, each mutating its copy, then merging *)

Replicas == {1, 2}

\* The replicated document: the event fields and the two collections.
Doc(meta, parts, blocks) ==
  [meta |-> meta, participants |-> parts, scheduleBlocks |-> blocks]

\* The event fields of the document the replicas start from.
baseMeta ==
  EventData(eventId, title, description, duration, organizerName, createdAt)

NoOp == [op |-> "none", id |-> <<>>, arg |-> <<>>]

\* The ids generateId() returns on replica r for the blocks of one call:
\* one representative of outcomes that differ from each other, from the
\* other replica's and from the ids already in the document.
replicaFreshIds(r, n) == [i \in 1..n |-> << IdChars[(r - 1) * MaxBlocks + i] >>]

\* The id generateId() returns on replica r for a new participant.
replicaParticipantId(r) == << IdChars[Len(IdChars) - 3 + r] >>

\* The key suffix of a block that is in the document before the replicas run.
oldBlockId == << IdChars[Len(IdChars)] >>

\* The entry of a map under a key, or nothing.
entryOf(map, k) == IF k \in DOMAIN map THEN << map[k] >> ELSE <<>>

\* Merge of two copies of a map per entry: an entry only one side changed
\* takes that side's change; an entry both sides changed takes the change of
\* the side that wrote last.
mergeMap(base, local, remote, remoteWroteLast) ==
  LET keys == DOMAIN base \cup DOMAIN local \cup DOMAIN remote
      result(k) ==
        IF entryOf(remote, k) # entryOf(base, k) /\
             (entryOf(local, k) = entryOf(base, k) \/ remoteWroteLast)
        THEN entryOf(remote, k)
        ELSE entryOf(local, k)
  IN  [k \in { key \in keys : result(key) # <<>> } |-> result(k)[1]]

mergeDoc(base, local, remote, remoteWroteLast) ==
  Doc(mergeMap(base.meta, local.meta, remote.meta, remoteWroteLast),
      mergeMap(base.participants, local.participants, remote.participants,
               remoteWroteLast),
      mergeMap(base.scheduleBlocks, local.scheduleBlocks,
               remote.scheduleBlocks, remoteWroteLast))

\* The documents the replicas start from.
BaseParticipants ==
  { <<>>,
    (<<"a">> :> EventParticipant("Ann", 0, TRUE, PARTICIPANT_COLORS[1])),
    (<<"a">> :> EventParticipant("Ann", 0, TRUE, PARTICIPANT_COLORS[1])) @@
    (<<"b">> :> EventParticipant("Bob", 0, TRUE, PARTICIPANT_COLORS[2])),
    (<<"a">> :> EventParticipant("Ann", 0, TRUE, PARTICIPANT_COLORS[1])) @@
    (<<"b">> :> EventParticipant("Bob", 0, TRUE, PARTICIPANT_COLORS[2])) @@
    (<<"a", "-", "b">> :>
       EventParticipant("Ann", 0, FALSE, PARTICIPANT_COLORS[3])) }

BaseBlocks ==
  { <<>>,
    (blockKey(<<"a">>, oldBlockId) :> OldBlock),
    (blockKey(<<"a">>, oldBlockId) :> OldBlock) @@
    (blockKey(<<"b">>, oldBlockId) :> OldBlock) @@
    (blockKey(<<"a", "-", "b">>, oldBlockId) :> OldBlock) }

InitReplica ==
  /\ eventId = "ev1"
  /\ title = "Standup"
  /\ description = Undefined
  /\ duration = 60
  /\ organizerName = "Ann"
  /\ createdAt = 1
  /\ participants \in BaseParticipants
  /\ scheduleBlocks \in BaseBlocks
  /\ replicaDocs = [r \in Replicas |->
                      Doc(baseMeta, participants, scheduleBlocks)]
  /\ replicaOps = [r \in Replicas |-> NoOp]
  /\ mergedDocs = <<>>
  /\ googleEvents = <<>>
  /\ transformed = <<>>
  /\ workerResponse = NoResponse
  /\ NotMounted
  /\ now = 0
  /\ selectedDuration = 30
  /\ timeSlots = <<>>
  /\ commonSlots = <<>>
  /\ lastOp = [op |-> "init", id |-> <<>>, arg |-> <<>>, run |-> 0, n |-> 0]

replicaFrame == <<docVars, viewVars, syncVars, flowVars, now>>

\* Replica r runs syncParticipantSchedule(participantId, blocks) on its copy.
replicaSyncParticipantSchedule(r, participantId, blocks) ==
  /\ replicaOps[r] = NoOp
  /\ mergedDocs = <<>>
  /\ replicaDocs' =
       [replicaDocs EXCEPT ![r].scheduleBlocks =
          newScheduleBlocks(replicaDocs[r].scheduleBlocks, participantId,
                            blocks, replicaFreshIds(r, Len(blocks)))]
  /\ replicaOps' = [replicaOps EXCEPT ![r] =
       [op |-> "syncParticipantSchedule", id |-> participantId, arg |-> blocks]]
  /\ lastOp' = [op |-> "syncParticipantSchedule", id |-> participantId,
                arg |-> blocks, run |-> 0, n |-> 0]
  /\ UNCHANGED <<replicaFrame, mergedDocs>>

\* Replica r runs addParticipant(name) on its copy at its clock reading t.
replicaAddParticipant(r, name, t) ==
  /\ replicaOps[r] = NoOp
  /\ mergedDocs = <<>>
  /\ replicaDocs' =
       [replicaDocs EXCEPT ![r].participants =
          withParticipant(replicaDocs[r].participants, replicaParticipantId(r),
                          newParticipant(replicaDocs[r].participants, name, t))]
  /\ replicaOps' = [replicaOps EXCEPT ![r] =
       [op |-> "addParticipant", id |-> replicaParticipantId(r), arg |-> <<>>]]
  /\ lastOp' = [op |-> "addParticipant", id |-> replicaParticipantId(r),
                arg |-> <<>>, run |-> 0, n |-> 0]
  /\ UNCHANGED <<replicaFrame, mergedDocs>>

\* Replica r ends an operation that left its copy as doc.
replicaRan(r, op, id, arg, doc) ==
  /\ replicaOps[r] = NoOp
  /\ mergedDocs = <<>>
  /\ replicaDocs' = [replicaDocs EXCEPT ![r] = doc]
  /\ replicaOps' = [replicaOps EXCEPT ![r] = [op |-> op, id |-> id, arg |-> arg]]
  /\ lastOp' = [op |-> op, id |-> id, arg |-> arg, run |-> 0, n |-> 0]
  /\ UNCHANGED <<replicaFrame, mergedDocs>>

\* Variant of storeEventData that also empties the participants, as the
\* retired loadEventData did when it switched events.
replicaStoreEventData_ClearParticipants(r, eventData) ==
  replicaRan(r, "storeEventData", <<>>, eventData,
             [replicaDocs[r] EXCEPT !.meta = eventData,
                                    !.participants = <<>>])

\* Replica r runs storeEventData(eventData): { ...state, eventId, title,
\* description, duration, organizerName, createdAt }.
replicaStoreEventData(r, eventData) ==
  replicaRan(r, "storeEventData", <<>>, eventData,
             [replicaDocs[r] EXCEPT !.meta = eventData])

\* Replica r runs updateParticipantState(id, updates).
replicaUpdateParticipantState(r, id, updates) ==
  replicaRan(r, "updateParticipantState", id, updates,
    IF id \notin DOMAIN replicaDocs[r].participants THEN replicaDocs[r]
    ELSE [replicaDocs[r] EXCEPT !.participants =
            withParticipant(@, id, mergeParticipant(@[id], updates))])

\* Replica r runs updateCalendarSyncStatus(participantId, connected).
replicaUpdateCalendarSyncStatus(r, participantId, connected) ==
  replicaRan(r, "updateCalendarSyncStatus", participantId, connected,
    IF participantId \notin DOMAIN replicaDocs[r].participants
    THEN replicaDocs[r]
    ELSE [replicaDocs[r] EXCEPT !.participants =
            withParticipant(@, participantId,
              mergeParticipant(@[participantId],
                               [calendarConnected |-> connected]))])

\* Replica r runs restoreParticipant(participantId, participantData).
replicaRestoreParticipant(r, participantId, participantData) ==
  replicaRan(r, "restoreParticipant", participantId, participantData,
    [replicaDocs[r] EXCEPT !.participants =
       withParticipant(@, participantId, participantData)])

\* Both replicas merge the other's changes; w is the replica that wrote last.
mergeReplicas(w) ==
  /\ \A r \in Replicas : replicaOps[r] # NoOp
  /\ mergedDocs = <<>>
  /\ mergedDocs' =
       [r \in Replicas |->
          mergeDoc(Doc(baseMeta, participants, scheduleBlocks),
                   replicaDocs[r],
                   replicaDocs[3 - r], w = 3 - r)]
  /\ lastOp' = [op |-> "merge", id |-> <<>>, arg |-> <<>>, run |-> 0, n |-> 0]
  /\ UNCHANGED <<replicaFrame, replicaDocs, replicaOps>>

NextReplica ==
  \/ \E r \in Replicas, p \in ParticipantIds, blocks \in BlockLists :
       replicaSyncParticipantSchedule(r, p, blocks)
  \/ \E r \in Replicas, name \in Names, t \in 0..MaxNow :
       replicaAddParticipant(r, name, t)
  \/ \E r \in Replicas, eventData \in EventDatas :
       replicaStoreEventData(r, eventData)
  \/ \E r \in Replicas, id \in ParticipantIds, updates \in PartialUpdates :
       replicaUpdateParticipantState(r, id, updates)
  \/ \E r \in Replicas, id \in ParticipantIds, connected \in BOOLEAN :
       replicaUpdateCalendarSyncStatus(r, id, connected)
  \/ \E r \in Replicas, id \in ParticipantIds, data \in RestoreData :
       replicaRestoreParticipant(r, id, data)
  \/ \E w \in Replicas : mergeReplicas(w)

SpecReplica == InitReplica /\ [][NextReplica]_vars

----------------------------------------------------------------------------
(* AvailabilityView: the slot grid as a function of the slot duration *)

MaxSlotDuration == 90     \* longest slot duration (minutes) tried

\* Slot durations handed to the grid computation: multiples of five minutes.
GridDurations == { d \in 1..MaxSlotDuration : d % 5 = 0 }

InitGrid ==
  /\ eventId = "ev1"
  /\ title = "Standup"
  /\ description = Undefined
  /\ duration = 60
  /\ organizerName = "Ann"
  /\ createdAt = 0
  /\ participants \in ViewParticipantMaps
  /\ scheduleBlocks = <<>>
  /\ now \in NowValues
  /\ selectedDuration \in GridDurations
  /\ timeSlots = <<>>
  /\ commonSlots = <<>>
  /\ googleEvents = <<>>
  /\ transformed = <<>>
  /\ workerResponse = NoResponse
  /\ NotMounted
  /\ NoReplicas
  /\ lastOp = [op |-> "init", id |-> <<>>, arg |-> <<>>, run |-> 0, n |-> 0]

\* The useMemo body runs with the slot duration given.
RenderGrid ==
  /\ timeSlots = <<>>
  /\ timeSlots' = computeTimeSlots(participants, scheduleBlocks,
                                   selectedDuration, now)
  /\ UNCHANGED <<docVars, selectedDuration, commonSlots, now, lastOp,
                 syncVars, flowVars, replicaVars>>

\* findCommonAvailability is called with the duration the grid uses.
NextGrid ==
  \/ RenderGrid
  \/ commonSlots = <<>> /\ CallFindCommonAvailability(selectedDuration)

SpecGrid == InitGrid /\ [][NextGrid]_vars

----------------------------------------------------------------------------
(* Properties of the store (Spec) *)

Range(f) == { f[x] : x \in DOMAIN f }

\* The entries hold exactly the blocks of the list: every block occurs as
\* often among the entries as in the list.
SameBlocks(entries, blocks) ==
  \A b \in Range(entries) \cup Range(blocks) :
    Cardinality({ k \in DOMAIN entries : entries[k] = b }) =
    Cardinality({ i \in DOMAIN blocks : blocks[i] = b })

\* C1: syncParticipantSchedule(p1, B1) neither removes nor changes an
\* existing entry whose key has the prefix `p2-`, for every pair of distinct
\* ids p1 and p2 -- also when p1 followed by '-' is a prefix of p2.
C1_IsolationAcrossParticipants ==
  [][ lastOp'.op = "syncParticipantSchedule" =>
        \A p2 \in ParticipantIds \ {lastOp'.id} :
          \A k \in DOMAIN scheduleBlocks :
            startsWith(k, keyPrefix(p2)) =>
              /\ k \in DOMAIN scheduleBlocks'
              /\ scheduleBlocks'[k] = scheduleBlocks[k] ]_vars

\* C2: after syncParticipantSchedule(p, B), called once or several times in
\* a row, the entries with key prefix `p-` hold exactly the blocks of B.
C2_ReplacementIdempotent ==
  lastOp.op = "syncParticipantSchedule" =>
    SameBlocks(getScheduleForParticipant(scheduleBlocks, lastOp.id), lastOp.arg)

\* C2 witness: the same non-empty replacement ran twice in a row.
C2_Witness ==
  /\ lastOp.op = "syncParticipantSchedule"
  /\ lastOp.run >= 2
  /\ Len(lastOp.arg) >= 1
  /\ Cardinality(DOMAIN getScheduleForParticipant(scheduleBlocks, lastOp.id))
       = Len(lastOp.arg)

----------------------------------------------------------------------------
(* Properties of the availability grid (SpecView) *)

SlotTimeOf(slot) == slot.hour * 60 + slot.minute
SlotEndOf(slot) == SlotTimeOf(slot) + selectedDuration

\* Some block under the participant's key prefix starts before the slot
\* ends and ends after the slot starts.
Overlaps(id, from, to) ==
  \E k \in DOMAIN scheduleBlocks :
    /\ startsWith(k, id \o <<"-">>)
    /\ LET blockStart == NewDate(scheduleBlocks[k].startTime)
           blockEnd == NewDate(scheduleBlocks[k].endTime)
       IN  /\ blockStart # InvalidDate
           /\ blockEnd # InvalidDate
           /\ blockStart < to
           /\ blockEnd > from

\* C4: in the grid, every slot with slotEnd <= now has isPast = true and the
\* status "unknown" for every participant, connected or not, with or without
\* overlapping blocks.
C4_PastSlotsUnknown ==
  \A i \in DOMAIN timeSlots :
    SlotEndOf(timeSlots[i]) <= now =>
      /\ timeSlots[i].isPast
      /\ DOMAIN timeSlots[i].availability = DOMAIN participants
      /\ \A id \in DOMAIN participants :
           timeSlots[i].availability[id] = "unknown"

\* C4 witness: a past slot of a connected participant whose block overlaps it.
C4_Witness ==
  \E i \in DOMAIN timeSlots : \E id \in DOMAIN participants :
    /\ SlotEndOf(timeSlots[i]) <= now
    /\ participants[id].calendarConnected
    /\ Overlaps(id, SlotTimeOf(timeSlots[i]), SlotEndOf(timeSlots[i]))
    /\ timeSlots[i].availability[id] = "unknown"

\* C5: in a slot that is not past, a participant who is not connected is
\* "unknown"; a connected one is "busy" iff one of the blocks under the
\* participant's key prefix has blockStart < slotEnd and blockEnd > slotStart,
\* and "available" otherwise (a block that only touches the slot does not
\* count); with no connected participant every status of the grid is "unknown".
C5_StatusPerParticipant ==
  /\ \A i \in DOMAIN timeSlots : \A id \in DOMAIN participants :
       SlotEndOf(timeSlots[i]) > now =>
         timeSlots[i].availability[id] =
           IF ~participants[id].calendarConnected THEN "unknown"
           ELSE IF Overlaps(id, SlotTimeOf(timeSlots[i]), SlotEndOf(timeSlots[i]))
                THEN "busy" ELSE "available"
  /\ (\A id \in DOMAIN participants : ~participants[id].calendarConnected) =>
       \A i \in DOMAIN timeSlots : \A id \in DOMAIN participants :
         timeSlots[i].availability[id] = "unknown"

\* C5 witness: a connected participant is available in a future slot that
\* starts exactly where one of the participant's blocks ends, and busy in
\* the slot before.
C5_Witness ==
  \E i \in DOMAIN timeSlots : \E id \in DOMAIN participants :
    /\ i > 1
    /\ SlotEndOf(timeSlots[i - 1]) > now
    /\ participants[id].calendarConnected
    /\ \E k \in DOMAIN scheduleBlocks :
         /\ startsWith(k, id \o <<"-">>)
         /\ NewDate(scheduleBlocks[k].endTime) = SlotTimeOf(timeSlots[i])
    /\ timeSlots[i].availability[id] = "available"
    /\ timeSlots[i - 1].availability[id] = "busy"

AllConnectedAvailable(slot) ==
  \A id \in DOMAIN participants :
    participants[id].calendarConnected => slot.availability[id] = "available"

\* C6 as stated: for every slot and every participant set the slot is green
\* iff every connected participant's status is "available".
C6_UnanimityAsStated ==
  \A i \in DOMAIN timeSlots :
    getSlotColor(timeSlots[i], participants) = Green
      <=> AllConnectedAvailable(timeSlots[i])

\* C6 amended: when at least one participant is connected, the slot is green
\* iff every connected participant's status is "available" (so participants
\* who are not connected never prevent green), and a connected participant
\* who is "busy" makes it red; with no connected participant the slot is
\* gray, never green.
C6_Unanimity ==
  \A i \in DOMAIN timeSlots :
    LET slot == timeSlots[i]
        color == getSlotColor(slot, participants)
        someConnected == \E id \in DOMAIN participants :
                           participants[id].calendarConnected
    IN  /\ someConnected => (color = Green <=> AllConnectedAvailable(slot))
        /\ (\E id \in DOMAIN participants :
              /\ participants[id].calendarConnected
              /\ slot.availability[id] = "busy") => color = Red
        /\ ~someConnected => color \in {Gray100, Gray200}

\* C6 witness: a green slot with a connected and a not connected participant,
\* and a red slot in the same grid.
C6_Witness ==
  /\ \E id \in DOMAIN participants : ~participants[id].calendarConnected
  /\ \E id \in DOMAIN participants : participants[id].calendarConnected
  /\ \E i \in DOMAIN timeSlots :
       getSlotColor(timeSlots[i], participants) = Green
  /\ \E i \in DOMAIN timeSlots :
       getSlotColor(timeSlots[i], participants) = Red

\* C7: findCommonAvailability reports a slot that is not past and in which
\* no connected participant has an overlapping block as available, also
\* when other participants are not connected.
C7_DisconnectedDoesNotBlock ==
  \A i \in DOMAIN commonSlots :
    LET slot == commonSlots[i]
    IN  ( /\ slot.end > now
          /\ \A id \in DOMAIN participants :
               participants[id].calendarConnected =>
                 ~Overlaps(id, slot.start, slot.end) )
        => slot.available

----------------------------------------------------------------------------
(* Properties of the sync pipeline (SpecSync) *)

BlockFieldNames == {"startTime", "endTime", "lastSyncAt"}

\* The event ids of the fetched calendar.
EventIds == { googleEvents[i].id : i \in DOMAIN googleEvents } \ {Undefined}

\* C3: every block the transform produces, every block of the worker's
\* reply and every block stored in scheduleBlocks by a sync path has exactly
\* the fields startTime, endTime and lastSyncAt, and no key of the document
\* carries a source event id.
C3_PrivacyBoundary ==
  /\ \A i \in DOMAIN transformed : DOMAIN transformed[i] = BlockFieldNames
  /\ \A k \in DOMAIN workerResponse.scheduleBlocks :
       /\ DOMAIN workerResponse.scheduleBlocks[k] = BlockFieldNames
       /\ \A j \in DOMAIN k : k[j] \notin EventIds
  /\ \A k \in DOMAIN scheduleBlocks :
       /\ DOMAIN scheduleBlocks[k] = BlockFieldNames
       /\ \A j \in DOMAIN k : k[j] \notin EventIds

\* C3 witness: the worker has transformed a non-empty calendar and the
\* browser path has just stored freshly stamped blocks.
C3_Witness ==
  /\ transformed # <<>>
  /\ lastOp.op = "fetchAndSyncCalendar"
  /\ \E k \in DOMAIN scheduleBlocks : scheduleBlocks[k].lastSyncAt >= now

\* A start or end value from which a time string can be resolved.
Resolvable(eventTime) ==
  /\ eventTime.present
  /\ eventTime.dateTime.kind # "undefined" \/ eventTime.date.kind # "undefined"

\* The events the claim says are dropped.
DroppedAsStated(event) ==
  \/ event.id = Undefined
  \/ ~Resolvable(event.start) /\ ~Resolvable(event.end)
  \/ event.status = "cancelled"

\* The events dropped when a missing start or a missing end suffices.
DroppedEitherMissing(event) ==
  \/ event.id = Undefined
  \/ ~Resolvable(event.start) \/ ~Resolvable(event.end)
  \/ event.status = "cancelled"

\* C10 as stated: the transform emits no block for an event without an id,
\* with neither a resolvable start nor a resolvable end, or cancelled, and
\* exactly one block for every other event.
C10_FilteringAsStated ==
  workerResponse.success =>
    Len(transformed) =
      Len(SelectSeq(googleEvents, LAMBDA event : ~DroppedAsStated(event)))

\* C10 amended: the transform emits no block for an event without an id,
\* with an unresolvable start or an unresolvable end, or cancelled, and
\* exactly one block, in order, for every other event.
C10_Filtering ==
  workerResponse.success =>
    LET others == SelectSeq(googleEvents,
                            LAMBDA event : ~DroppedEitherMissing(event))
    IN  /\ Len(transformed) = Len(others)
        /\ \A i \in DOMAIN transformed :
             /\ transformed[i].startTime \in
                  {others[i].start.dateTime, others[i].start.date}
             /\ transformed[i].endTime \in
                  {others[i].end.dateTime, others[i].end.date}
             /\ Truthy(transformed[i].startTime)
             /\ Truthy(transformed[i].endTime)
        /\ (googleEvents # <<>> /\ \A i \in DOMAIN googleEvents :
              googleEvents[i].status = "cancelled") => transformed = <<>>

\* C10 witness: the transform ran on a list holding a cancelled event and
\* an event that is kept.
C10_Witness ==
  /\ workerResponse.success
  /\ \E i \in DOMAIN googleEvents : googleEvents[i].status = "cancelled"
  /\ Len(transformed) = 1

----------------------------------------------------------------------------
(* Properties of the browser sync flow (SpecFlow) *)

\* C8: when fetchAndSyncCalendar has just written the participant's blocks
\* (a sync completed successfully), the participant's calendarConnected is
\* true, whichever path started the sync.
C8_SyncedImpliesConnected ==
  lastOp.op = "eventsListItems" => calendarConnected(participants)

\* C9: when events.list rejects in a sync begun for a participant who was
\* not connected, the participant's calendarConnected is false once the
\* attempt has ended.
C9_FetchFailureLeavesDisconnected ==
  (lastOp.op = "eventsListRejected" /\ ~lastOp.arg.connectedAtStart)
    => ~calendarConnected(participants)

----------------------------------------------------------------------------
(* Properties of one sync pass (SpecSync) *)

\* C11: all blocks produced by one sync pass carry the same lastSyncAt, in
\* the worker transform and in the browser's fetchAndSyncCalendar mapping,
\* however the wall clock advances during the pass.
C11_SharedLastSyncAt ==
  /\ \A i, j \in DOMAIN transformed :
       transformed[i].lastSyncAt = transformed[j].lastSyncAt
  /\ lastOp.op = "fetchAndSyncCalendar" =>
       LET written == getScheduleForParticipant(scheduleBlocks,
                                                currentParticipantId)
       IN  \A k, l \in DOMAIN written :
             written[k].lastSyncAt = written[l].lastSyncAt

\* The rows that pass validation: an id, a resolvable start and end, not
\* cancelled.
ValidRow(event) ==
  /\ event.id # Undefined
  /\ Resolvable(event.start)
  /\ Resolvable(event.end)
  /\ event.status # "cancelled"

\* C12: the transform never fails: for every event list the worker's pass
\* ends with success, and every valid row of the batch has its block in the
\* returned list, whatever invalid rows the batch holds.
C12_TransformNeverFails ==
  workerResponse.participantId = currentParticipantId =>
    /\ workerResponse.success
    /\ workerResponse.scheduleBlockCount = Len(transformed)
    /\ \A i \in DOMAIN googleEvents :
         ValidRow(googleEvents[i]) =>
           \E j \in DOMAIN transformed :
             /\ transformed[j].startTime = resolveTime(googleEvents[i].start)
             /\ transformed[j].endTime = resolveTime(googleEvents[i].end)

\* C12 witness: the pass ran on a batch with a row lacking its start and a
\* valid row, and returned the valid row's block.
C12_Witness ==
  /\ workerResponse.participantId = currentParticipantId
  /\ \E i \in DOMAIN googleEvents :
       googleEvents[i].id # Undefined /\ ~googleEvents[i].start.present
  /\ \E i \in DOMAIN googleEvents : ValidRow(googleEvents[i])
  /\ Len(transformed) = 1

----------------------------------------------------------------------------
(* Further properties of the store (Spec) *)

\* The listed fields of the participant took the listed values and its
\* other fields kept theirs.
OnlyListedFieldsChanged(before, after, updates) ==
  /\ DOMAIN after = DOMAIN before \cup DOMAIN updates
  /\ \A f \in DOMAIN after :
       after[f] = IF f \in DOMAIN updates THEN updates[f] ELSE before[f]

\* C13: updateParticipantState and updateCalendarSyncStatus with an id that
\* is not a key of participants leave participants, scheduleBlocks and the
\* event metadata unchanged; with a present id they change only the listed
\* fields of that participant and no other participant.
C13_MissingEntityNoOp ==
  [][ lastOp'.op \in {"updateParticipantState", "updateCalendarSyncStatus"} =>
        LET id == lastOp'.id
            listed == IF lastOp'.op = "updateParticipantState"
                      THEN PartialUpdates
                      ELSE { [calendarConnected |-> c] : c \in BOOLEAN }
        IN  /\ metaVars' = metaVars
            /\ scheduleBlocks' = scheduleBlocks
            /\ DOMAIN participants' = DOMAIN participants
            /\ \A q \in DOMAIN participants \ {id} :
                 participants'[q] = participants[q]
            /\ id \in DOMAIN participants =>
                 \E updates \in listed :
                   OnlyListedFieldsChanged(participants[id],
                                           participants'[id], updates) ]_vars

\* C13 witness: an update named an absent id while another participant
\* exists, and the document is as it was.
C13_Witness ==
  /\ lastOp.op \in {"updateParticipantState", "updateCalendarSyncStatus"}
  /\ lastOp.id \notin DOMAIN participants
  /\ participants # <<>>

\* The six metadata fields as the metadata record gives them.
MetaOf(eventData) ==
  << eventData.eventId, eventData.title, eventData.description,
     eventData.duration, eventData.organizerName, eventData.createdAt >>

C15_ScheduleForParticipant ==
  [][ lastOp'.op = "syncParticipantSchedule" =>
        /\ SameBlocks(getScheduleForParticipant(scheduleBlocks', lastOp'.id),
                      lastOp'.arg)
        /\ \A q \in ParticipantIds \ {lastOp'.id} :
             getScheduleForParticipant(scheduleBlocks', q) =
               getScheduleForParticipant(scheduleBlocks, q) ]_vars

----------------------------------------------------------------------------
(* Properties of joining (SpecJoin) *)

\* C18: addParticipant gives the new participant the color
\* PARTICIPANT_COLORS[n mod 8], n being the number of participants just
\* before the call, sets calendarConnected = false and leaves every existing
\* participant unchanged; so the first eight participants added in sequence
\* carry eight distinct colors.
C18_ColorByJoinOrder ==
  [][ lastOp'.op = "addParticipant" =>
        LET id == lastOp'.id
            n == Cardinality(DOMAIN participants)
        IN  /\ id \notin DOMAIN participants
            /\ DOMAIN participants' = DOMAIN participants \cup {id}
            /\ participants'[id].color = PARTICIPANT_COLORS[(n % 8) + 1]
            /\ participants'[id].calendarConnected = FALSE
            /\ \A q \in DOMAIN participants : participants'[q] = participants[q]
            /\ n + 1 <= 8 =>
                 \A q1, q2 \in DOMAIN participants' :
                   q1 # q2 => participants'[q1].color # participants'[q2].color
      ]_vars

\* C18 witness: eight participants joined and the ninth got the first color
\* again.
C18_Witness ==
  /\ lastOp.op = "addParticipant"
  /\ Cardinality(DOMAIN participants) = 9
  /\ participants[lastOp.id].color = PARTICIPANT_COLORS[1]

----------------------------------------------------------------------------
(* Properties of concurrent replicas (SpecReplica) *)

BothRan(op) == mergedDocs # <<>> /\ \A r \in Replicas : replicaOps[r].op = op

\* C16: when the replicas ran syncParticipantSchedule(p1, B1) and
\* syncParticipantSchedule(p2, B2) with p1 # p2, then in the merged document
\* of either replica the entries prefixed `p1-` are exactly B1 and the
\* entries prefixed `p2-` are exactly B2.
C16_DifferentParticipantsUnion ==
  (BothRan("syncParticipantSchedule") /\ replicaOps[1].id # replicaOps[2].id)
    => \A m \in Replicas : \A r \in Replicas :
         SameBlocks(getScheduleForParticipant(mergedDocs[m].scheduleBlocks,
                                              replicaOps[r].id),
                    replicaOps[r].arg)

\* C17: when the replicas ran syncParticipantSchedule(p, B1) and
\* syncParticipantSchedule(p, B2), then in the merged document the entries
\* prefixed `p-` are exactly B1 or exactly B2.
C17_SameParticipantLastWriterWins ==
  (BothRan("syncParticipantSchedule") /\ replicaOps[1].id = replicaOps[2].id)
    => \A m \in Replicas :
         \E r \in Replicas :
           SameBlocks(getScheduleForParticipant(mergedDocs[m].scheduleBlocks,
                                                replicaOps[r].id),
                      replicaOps[r].arg)

\* C19: when the replicas each ran addParticipant on the same document, the
\* two new participants got the same color, and the merged document of
\* either replica holds both of them with that color, although it holds
\* fewer than eight participants.
C19_ColorRace ==
  BothRan("addParticipant") =>
    \A m \in Replicas :
      LET merged == mergedDocs[m].participants
          id1 == replicaOps[1].id
          id2 == replicaOps[2].id
      IN  /\ id1 # id2
          /\ {id1, id2} \subseteq DOMAIN merged
          /\ DOMAIN merged = DOMAIN participants \cup {id1, id2}
          /\ merged[id1].color = merged[id2].color
          /\ merged[id1].color = replicaDocs[1].participants[id1].color
          /\ merged[id2].color = replicaDocs[2].participants[id2].color
          /\ Cardinality(DOMAIN merged) < 8

\* C19 witness: both replicas added a participant to a document with two
\* participants, at different clock readings, and merged.
C19_Witness ==
  /\ BothRan("addParticipant")
  /\ Cardinality(DOMAIN participants) = 2
  /\ mergedDocs[1].participants[replicaOps[1].id].joinedAt #
       mergedDocs[1].participants[replicaOps[2].id].joinedAt

----------------------------------------------------------------------------
(* Properties of the slot grid (SpecGrid) *)

\* The grid starts at 09:00, each next slot starts selectedDuration minutes
\* after the previous slot's start, no slot starts at or after 23:00, and no
\* two slots [start, start + selectedDuration) overlap.
GridIsRegular ==
  /\ SlotTimeOf(timeSlots[1]) = 9 * 60
  /\ \A i \in 1..(Len(timeSlots) - 1) :
       SlotTimeOf(timeSlots[i + 1]) = SlotTimeOf(timeSlots[i]) + selectedDuration
  /\ \A i \in DOMAIN timeSlots : SlotTimeOf(timeSlots[i]) < 23 * 60
  /\ \A i, j \in DOMAIN timeSlots :
       i < j => SlotEndOf(timeSlots[i]) <= SlotTimeOf(timeSlots[j])

C21_JoinedAtImmutable ==
  [][\A id \in DOMAIN participants :
       /\ id \in DOMAIN participants'
       /\ participants'[id].joinedAt = participants[id].joinedAt]_vars

\* The event is populated: eventId and title are non-null.
Populated == eventId # Null /\ title # Null

\* C22: once storeEventData has set eventId and title to non-null values, no
\* later store operation makes eventId or title null again.
C22_PopulatedNoWayBack ==
  [][Populated => Populated']_vars

\* C22 witness: the event is populated and the last operation of the run,
\* a schedule sync that stored blocks, left it populated.
C22_Witness ==
  /\ Populated
  /\ lastOp.op = "syncParticipantSchedule"
  /\ lastOp.n = MaxSteps
  /\ scheduleBlocks # <<>>

\* The time string the claim names for a start or end value: dateTime when
\* it is present, date otherwise.
StatedTime(eventTime) ==
  IF eventTime.dateTime.kind = "dateTime" THEN eventTime.dateTime
  ELSE eventTime.date

\* C23: for every event the worker transform retains, and for every event
\* the browser mapping retains, the block's startTime is start.dateTime when
\* that is present and start.date otherwise, and endTime likewise from end;
\* a date-only event yields a block holding the two date strings.
C23_TimeResolution ==
  /\ workerResponse.success =>
       LET retained == SelectSeq(googleEvents,
                                 LAMBDA event : ~DroppedEitherMissing(event))
       IN  /\ Len(transformed) = Len(retained)
           /\ \A i \in DOMAIN transformed :
                /\ transformed[i].startTime = StatedTime(retained[i].start)
                /\ transformed[i].endTime = StatedTime(retained[i].end)
                /\ (retained[i].start.dateTime.kind = "undefined"
                      /\ retained[i].end.dateTime.kind = "undefined")
                     => /\ transformed[i].startTime.kind = "date"
                        /\ transformed[i].endTime.kind = "date"
  /\ lastOp.op = "fetchAndSyncCalendar" =>
       LET retained == SelectSeq(googleEvents,
                         LAMBDA event : event.start.present /\ event.end.present)
           keyOf(i) == blockKey(currentParticipantId, <<IdChars[i]>>)
       IN  \A i \in DOMAIN retained :
             /\ keyOf(i) \in DOMAIN scheduleBlocks
             /\ scheduleBlocks[keyOf(i)].startTime = StatedTime(retained[i].start)
             /\ scheduleBlocks[keyOf(i)].endTime = StatedTime(retained[i].end)

\* C23 witness: the worker transformed a list holding a date-only event and
\* an event with both dateTime and date, and the browser mapping has stored
\* the blocks of the same list.
C23_Witness ==
  /\ workerResponse.success
  /\ Len(transformed) = 2
  /\ \E i \in DOMAIN transformed : transformed[i].startTime.kind = "date"
  /\ \E i \in DOMAIN googleEvents :
       /\ googleEvents[i].start.present
       /\ googleEvents[i].start.dateTime.kind = "dateTime"
       /\ googleEvents[i].start.date.kind = "date"
  /\ lastOp.op = "fetchAndSyncCalendar"
  /\ Cardinality(DOMAIN scheduleBlocks) = 2

----------------------------------------------------------------------------
(* Properties of the browser sync flow: overlap and termination (SpecFlow) *)

\* The sync calls that are inside fetchAndSyncCalendar.
Fetching == { i \in DOMAIN inFlight : inFlight[i].pc = "events.list" }

\* C24: at most one calendar sync is in flight: no two executions of
\* fetchAndSyncCalendar overlap, and when one sync has just ended (resetting
\* isSyncing and clearing the gapi token) no other sync is still running.
C24_SingleSyncInFlight ==
  /\ Cardinality(Fetching) <= 1
  /\ lastOp.op \in {"eventsListNoItems", "eventsListItems", "eventsListRejected"}
       => inFlight = <<>>

\* C25: every manual sync attempt terminates: whenever isSyncing is true
\* (only handleSyncGoogleCalendar sets it), it eventually becomes false
\* again, given that every awaited call settles and the OAuth popup calls
\* back.
C25_ManualSyncTerminates ==
  isSyncing ~> ~isSyncing

----------------------------------------------------------------------------
(* Properties of the client sync paths (SpecSync) *)

\* C26: after fetchAndSyncCalendar has completed without error for the
\* participant, the participant's entries of scheduleBlocks correspond
\* exactly to the events that fetch returned (those carrying a start and an
\* end); when the fetch returned no events, no block of an earlier sync is
\* left.
C26_SyncReflectsFetch ==
  lastOp.op \in {"fetchAndSyncCalendar", "fetchAndSyncCalendarNoItems"} =>
    LET written == getScheduleForParticipant(scheduleBlocks,
                                             currentParticipantId)
        returned == SelectSeq(googleEvents,
                      LAMBDA event : event.start.present /\ event.end.present)
    IN  /\ Cardinality(DOMAIN written) = Len(returned)
        /\ \A k \in DOMAIN written :
             \E i \in DOMAIN returned :
               /\ written[k].startTime \in
                    {returned[i].start.dateTime, returned[i].start.date}
               /\ written[k].endTime \in
                    {returned[i].end.dateTime, returned[i].end.date}
        /\ googleEvents = <<>> => written = <<>>

\* C27: after handleDisconnectCalendar has completed for the participant,
\* the participant's calendarConnected is false and scheduleBlocks holds no
\* entry with the participant's prefix.
C27_DisconnectClears ==
  lastOp.op = "handleDisconnectCalendar" =>
    /\ ~participants[currentParticipantId].calendarConnected
    /\ getScheduleForParticipant(scheduleBlocks, currentParticipantId) = <<>>

\* C28: the scheduleBlocks document of a successful worker response has
\* exactly scheduleBlockCount entries, every key has the participant's
\* prefix, and each block is stored under the id derived from the event it
\* was produced from (its own start, end and participant).
C28_WorkerResponseConsistent ==
  workerResponse.success =>
    LET doc == workerResponse.scheduleBlocks
        pid == workerResponse.participantId
    IN  /\ Cardinality(DOMAIN doc) = workerResponse.scheduleBlockCount
        /\ \A k \in DOMAIN doc :
             /\ startsWith(k, keyPrefix(pid))
             /\ k = blockKey(pid, hashId(doc[k].startTime, doc[k].endTime, pid))

----------------------------------------------------------------------------
(* Properties of the mutations' field sets (SpecReplica) *)

\* Replica r runs operation op in this step.
Runs(r, op) == replicaOps[r].op = "none" /\ replicaOps'[r].op = op

ParticipantOps ==
  {"addParticipant", "updateParticipantState", "updateCalendarSyncStatus",
   "restoreParticipant"}

\* C29: storeEventData leaves participants and scheduleBlocks unchanged,
\* syncParticipantSchedule leaves participants and the event fields
\* unchanged, and addParticipant, updateParticipantState,
\* updateCalendarSyncStatus and restoreParticipant leave scheduleBlocks and
\* the event fields unchanged; and when one replica's storeEventData is
\* merged with the other's concurrent addParticipant, the merged document
\* holds the added participant (and the stored event fields).
C29_MutationsScoped ==
  [][/\ \A r \in Replicas :
          /\ Runs(r, "storeEventData") =>
               /\ replicaDocs'[r].participants = replicaDocs[r].participants
               /\ replicaDocs'[r].scheduleBlocks = replicaDocs[r].scheduleBlocks
          /\ Runs(r, "syncParticipantSchedule") =>
               /\ replicaDocs'[r].participants = replicaDocs[r].participants
               /\ replicaDocs'[r].meta = replicaDocs[r].meta
          /\ (\E op \in ParticipantOps : Runs(r, op)) =>
               /\ replicaDocs'[r].scheduleBlocks = replicaDocs[r].scheduleBlocks
               /\ replicaDocs'[r].meta = replicaDocs[r].meta
     /\ (mergedDocs = <<>> /\ mergedDocs' # <<>>) =>
          \A r \in Replicas :
            (replicaOps[r].op = "storeEventData"
               /\ replicaOps[3 - r].op = "addParticipant") =>
              \A m \in Replicas :
                LET id == replicaOps[3 - r].id
                IN  /\ id \in DOMAIN mergedDocs'[m].participants
                    /\ mergedDocs'[m].participants[id] =
                         replicaDocs[3 - r].participants[id]
                    /\ DOMAIN mergedDocs'[m].participants =
                         DOMAIN participants \cup {id}
                    /\ mergedDocs'[m].meta = replicaDocs[r].meta]_vars

\* C29 witness: on a document with participants and blocks, one replica ran
\* storeEventData, the other added a participant, and they merged.
C29_Witness ==
  /\ mergedDocs # <<>>
  /\ replicaOps[1].op = "storeEventData"
  /\ replicaOps[2].op = "addParticipant"
  /\ DOMAIN participants # {}
  /\ scheduleBlocks # <<>>
  /\ mergedDocs[1].meta.title = "Retro"

----------------------------------------------------------------------------
(* Properties of findCommonAvailability against the grid (SpecGrid) *)

\* C30: findCommonAvailability(date, duration), called with the duration
\* the grid uses, returns slots that are each `duration` minutes long,
\* start `duration` minutes apart from 09:00 and cover the day up to 23:00,
\* and so start where the slots of AvailabilityView's grid start.
C30_HonoursDuration ==
  commonSlots # <<>> =>
    /\ commonSlots[1].start = 9 * 60
    /\ \A i \in DOMAIN commonSlots :
         commonSlots[i].end - commonSlots[i].start = selectedDuration
    /\ \A i \in 1..(Len(commonSlots) - 1) :
         commonSlots[i + 1].start = commonSlots[i].start + selectedDuration
    /\ commonSlots[Len(commonSlots)].end >= 23 * 60
    /\ timeSlots # <<>> =>
         /\ Len(commonSlots) = Len(timeSlots)
         /\ \A i \in DOMAIN commonSlots :
              commonSlots[i].start = SlotTimeOf(timeSlots[i])

====
